---- MODULE Spec2Model ----
(***************************************************************************)
(* Model of the sentiment-analysis serving core (backend/main.py) and of   *)
(* the text preprocessing it shares with the training script               *)
(* (model/train.py).                                                       *)
(*                                                                         *)
(* Strings are sequences of one-character strings.  Probabilities are      *)
(* integers in units of 1e-5 before rounding and in units of 1e-4 after    *)
(* round(x, 4); coefficients are integers in units of 1e-2 and tf-idf      *)
(* weights integers in units of 1e-3, so that a product is in units of     *)
(* 1e-5.                                                                   *)
(***************************************************************************)
EXTENDS Integers, Sequences, FiniteSets, TLC

VARIABLES
    phase,           \* lifespan position: "init", "serving", "failed", "stopped"
    MODEL,           \* main.py:23  the classifier artifact, or None
    VECTORIZER,      \* main.py:24  the vectorizer artifact, or None
    PREDICTION_LOG,  \* main.py:26  list of prediction records
    frames,          \* one frame per in-flight request handler
    running,         \* the handler that holds the event loop (0: none)
    produced,        \* history: every record ever appended, in order
    work,            \* history: number of work units accepted so far
    fin,             \* input of the pure-function specifications
    fout             \* their output

vars == <<phase, MODEL, VECTORIZER, PREDICTION_LOG, frames, running,
          produced, work, fin, fout>>

\* Python's None (a record, so that it can be compared with an artifact)
None == [kind |-> "None"]

----------------------------------------------------------------------------
(* Characters and the character classes the regular expressions use.       *)

LowerLetters ==
    {"a","b","c","d","e","f","g","h","i","j","k","l","m",
     "n","o","p","q","r","s","t","u","v","w","x","y","z"}

UpperLetters ==
    {"A","B","C","D","E","F","G","H","I","J","K","L","M",
     "N","O","P","Q","R","S","T","U","V","W","X","Y","Z"}

Digits == {"0","1","2","3","4","5","6","7","8","9"}

LowerOf ==
    ("A" :> "a") @@ ("B" :> "b") @@ ("C" :> "c") @@ ("D" :> "d") @@
    ("E" :> "e") @@ ("F" :> "f") @@ ("G" :> "g") @@ ("H" :> "h") @@
    ("I" :> "i") @@ ("J" :> "j") @@ ("K" :> "k") @@ ("L" :> "l") @@
    ("M" :> "m") @@ ("N" :> "n") @@ ("O" :> "o") @@ ("P" :> "p") @@
    ("Q" :> "q") @@ ("R" :> "r") @@ ("S" :> "s") @@ ("T" :> "t") @@
    ("U" :> "u") @@ ("V" :> "v") @@ ("W" :> "w") @@ ("X" :> "x") @@
    ("Y" :> "y") @@ ("Z" :> "z")

\* \s
IsSpace(c) == c \in {" ", "\t", "\n", "\r"}

\* [a-zA-Z]
IsAlpha(c) == c \in LowerLetters \cup UpperLetters

\* \w
IsWord(c) == IsAlpha(c) \/ c \in Digits \/ c = "_"

\* str.lower()
Lower(s) == [i \in 1..Len(s) |-> IF s[i] \in UpperLetters THEN LowerOf[s[i]] ELSE s[i]]

\* s[from:] as a sequence
Drop(s, n) == SubSeq(s, n + 1, Len(s))

StartsWith(s, p) == Len(s) >= Len(p) /\ SubSeq(s, 1, Len(p)) = p

RECURSIVE RunNonSpace(_)
\* length of the longest prefix of s matching \S*
RunNonSpace(s) ==
    IF s = <<>> \/ IsSpace(Head(s)) THEN 0 ELSE 1 + RunNonSpace(Tail(s))

RECURSIVE RunWord(_)
\* length of the longest prefix of s matching \w*
RunWord(s) ==
    IF s = <<>> \/ ~IsWord(Head(s)) THEN 0 ELSE 1 + RunWord(Tail(s))

\* length of the match of  prefix\S+  at the start of s, 0 when there is none
MatchPrefixNonSpace(s, p) ==
    IF StartsWith(s, p) /\ RunNonSpace(Drop(s, Len(p))) >= 1
    THEN Len(p) + RunNonSpace(Drop(s, Len(p)))
    ELSE 0

\* length of the match of  http\S+|www\S+|https\S+  at the start of s
MatchUrl(s) ==
    IF MatchPrefixNonSpace(s, <<"h","t","t","p">>) > 0
    THEN MatchPrefixNonSpace(s, <<"h","t","t","p">>)
    ELSE IF MatchPrefixNonSpace(s, <<"w","w","w">>) > 0
    THEN MatchPrefixNonSpace(s, <<"w","w","w">>)
    ELSE MatchPrefixNonSpace(s, <<"h","t","t","p","s">>)

\* length of the match of  <sigil>\w+  at the start of s
MatchSigil(s, sigil) ==
    IF s # <<>> /\ Head(s) = sigil /\ RunWord(Tail(s)) >= 1
    THEN 1 + RunWord(Tail(s))
    ELSE 0

RECURSIVE SubUrl(_)
\* re.sub(r"http\S+|www\S+|https\S+", "", s): leftmost non-overlapping matches
SubUrl(s) ==
    IF s = <<>> THEN <<>>
    ELSE IF MatchUrl(s) > 0 THEN SubUrl(Drop(s, MatchUrl(s)))
    ELSE <<Head(s)>> \o SubUrl(Tail(s))

RECURSIVE SubSigil(_, _)
\* re.sub(r"@\w+", "", s) and re.sub(r"#\w+", "", s)
SubSigil(s, sigil) ==
    IF s = <<>> THEN <<>>
    ELSE IF MatchSigil(s, sigil) > 0 THEN SubSigil(Drop(s, MatchSigil(s, sigil)), sigil)
    ELSE <<Head(s)>> \o SubSigil(Tail(s), sigil)

\* re.sub(r"[^a-zA-Z\s]", "", s)
SubNonAlpha(s) == SelectSeq(s, LAMBDA c : IsAlpha(c) \/ IsSpace(c))

RECURSIVE RunSpace(_)
\* length of the longest prefix of s matching \s*
RunSpace(s) ==
    IF s = <<>> \/ ~IsSpace(Head(s)) THEN 0 ELSE 1 + RunSpace(Tail(s))

RECURSIVE SubSpaces(_)
\* re.sub(r"\s+", " ", s)
SubSpaces(s) ==
    IF s = <<>> THEN <<>>
    ELSE IF IsSpace(Head(s)) THEN <<" ">> \o SubSpaces(Drop(s, RunSpace(s)))
    ELSE <<Head(s)>> \o SubSpaces(Tail(s))

RECURSIVE RStrip(_)
RStrip(s) ==
    IF s = <<>> \/ ~IsSpace(s[Len(s)]) THEN s ELSE RStrip(SubSeq(s, 1, Len(s) - 1))

\* str.strip()
Strip(s) == RStrip(Drop(s, RunSpace(s)))

\* A plausible slip in clean_text: the whitespace collapse runs before the
\* non-letter stripping instead of after it.
clean_text_swapped(text) ==
    Strip(SubNonAlpha(SubSpaces(SubSigil(SubSigil(SubUrl(Lower(text)), "@"), "#"))))

\* main.py:132-140 and train.py:155-163 (the two are the same function)
clean_text(text) ==
    Strip(SubSpaces(SubNonAlpha(SubSigil(SubSigil(SubUrl(Lower(text)), "@"), "#"))))

----------------------------------------------------------------------------
(* Numbers.                                                                *)

Abs(x) == IF x < 0 THEN -x ELSE x

\* round(x, 4): x is in units of 1e-5, the result in units of 1e-4; a value
\* half-way between two results goes to the even one.
Round4(x) ==
    LET q == Abs(x) \div 10
        r == Abs(x) % 10
        m == IF r > 5 \/ (r = 5 /\ q % 2 = 1) THEN q + 1 ELSE q
    IN  IF x < 0 THEN -m ELSE m

RECURSIVE SumSeq(_)
SumSeq(s) == IF s = <<>> THEN 0 ELSE Head(s) + SumSeq(Tail(s))

\* round(total / n, 4) for a total in units of 1e-4: to the nearest, half-way
\* values to the even result
RoundDiv(total, n) ==
    LET q == total \div n
        r == total % n
    IN  IF 2 * r > n \/ (2 * r = n /\ q % 2 = 1) THEN q + 1 ELSE q

----------------------------------------------------------------------------
(* The artifacts.  Both are built by scikit-learn and loaded with joblib;  *)
(* the model keeps of them what main.py uses.                              *)

\* main.py:25
LABEL_MAP == (0 :> "negative") @@ (1 :> "positive") @@ (2 :> "neutral")

\* The fitted vectorizer: get_feature_names_out() (sorted; unigrams and
\* bigrams, train.py:200-206) and one idf weight per term.
TheVectorizer ==
    [ vocab |-> << <<"b","a","d">>,
                   <<"g","o","o","d">>,
                   <<"n","o","t">>,
                   <<"n","o","t"," ","g","o","o","d">> >>,
      idf   |-> <<505, 497, 300, 700>> ]

\* A classifier over the three classes of LABEL_MAP: per-class term weights
\* w and intercepts b.  A linear classifier (train.py:211-217) publishes w
\* as coef_; any other classifier with predict_proba does not.
LinearModel ==
    [ kind |-> "linear",
      w |-> (0 :> <<31, -30, 20, 40>>) @@ (1 :> <<-30, 33, -11, -40>>) @@ (2 :> <<0, 0, -10, 0>>),
      b |-> (0 :> 0) @@ (1 :> 0) @@ (2 :> 0) ]

NonLinearModel == [LinearModel EXCEPT !.kind = "nonlinear"]

Models == {LinearModel, NonLinearModel}

\* hasattr(MODEL, "coef_")
HasCoef(model) == model.kind = "linear"

RECURSIVE SplitWords(_)
\* the runs of non-space characters of s, in order
SplitWords(s) ==
    IF s = <<>> THEN <<>>
    ELSE IF IsSpace(Head(s)) THEN SplitWords(Tail(s))
    ELSE <<SubSeq(s, 1, RunNonSpace(s))>> \o SplitWords(Drop(s, RunNonSpace(s)))

\* TfidfVectorizer's tokens: words of two or more characters
Tokens(s) == SelectSeq(SplitWords(s), LAMBDA t : Len(t) >= 2)

\* the unigrams and bigrams of a token list (ngram_range = (1, 2))
NGrams(toks) ==
    toks \o [i \in 1..(IF Len(toks) = 0 THEN 0 ELSE Len(toks) - 1) |->
                toks[i] \o <<" ">> \o toks[i + 1]]

Count(seq, x) == Cardinality({i \in 1..Len(seq) : seq[i] = x})

\* VECTORIZER.transform([cleaned]).toarray()[0]: one weight per vocabulary
\* term, non-zero exactly for the terms that occur in the text
Transform(vec, cleaned) ==
    [i \in 1..Len(vec.vocab) |-> vec.idf[i] * Count(NGrams(Tokens(cleaned)), vec.vocab[i])]

\* the decision value of class c
Score(model, features, c) ==
    model.b[c] + SumSeq([i \in 1..Len(features) |-> model.w[c][i] * features[i]])

\* MODEL.predict_proba(features)[0]: one probability per class, in units of
\* 1e-5, increasing with the class's decision value
predict_proba(model, features) ==
    LET cls   == DOMAIN LABEL_MAP
        lo    == CHOOSE m \in {Score(model, features, c) : c \in cls} :
                    \A c \in cls : m <= Score(model, features, c)
        wt(c) == 100 + (Score(model, features, c) - lo) \div 100
        total == SumSeq([k \in 1..Cardinality(cls) |-> wt(k - 1)])
    IN  [c \in cls |-> (wt(c) * 100000) \div total]

\* A plausible slip in argmax: the last of several maxima.
ArgMaxLast(proba) ==
    CHOOSE i \in DOMAIN proba :
        /\ \A j \in DOMAIN proba : proba[j] <= proba[i]
        /\ \A j \in DOMAIN proba : proba[j] = proba[i] => j <= i

\* int(np.argmax(proba)): the first of several maxima
ArgMax(proba) ==
    CHOOSE i \in DOMAIN proba :
        /\ \A j \in DOMAIN proba : proba[j] <= proba[i]
        /\ \A j \in DOMAIN proba : proba[j] = proba[i] => i <= j

----------------------------------------------------------------------------
(* predict_sentiment, main.py:144-200.                                     *)

\* main.py:181  key_words[:8]
TopK == 8

\* " " in word
HasBlank(word) == \E i \in 1..Len(word) : word[i] = " "

RECURSIVE InsertDesc(_, _)
\* x put into a list sorted by score descending, after the entries that
\* score as much: list.sort(key=score, reverse=True) keeps equal entries in
\* their original order
InsertDesc(sorted, x) ==
    IF sorted = <<>> THEN <<x>>
    ELSE IF Head(sorted).score >= x.score THEN <<Head(sorted)>> \o InsertDesc(Tail(sorted), x)
    ELSE <<x>> \o sorted

RECURSIVE SortDesc(_)
SortDesc(kws) ==
    IF kws = <<>> THEN <<>>
    ELSE InsertDesc(SortDesc(SubSeq(kws, 1, Len(kws) - 1)), kws[Len(kws)])

\* main.py:174-179: the entry of vocabulary term idx
KeyWordEntry(model, vec, features, idx) ==
    LET pos_coef  == IF HasCoef(model) THEN model.w[1][idx] ELSE 0
        neg_coef  == IF HasCoef(model) THEN model.w[0][idx] ELSE 0
        net_score == (pos_coef - neg_coef) * features[idx]
    IN  [ word  |-> vec.vocab[idx],
          score |-> Round4(Abs(net_score)),
          type  |-> IF net_score > 0 THEN "positive" ELSE "negative" ]

\* features.nonzero()[1] without the multi-word terms, ascending
WordIndices(vec, features) ==
    SelectSeq([i \in 1..Len(features) |-> i],
              LAMBDA i : features[i] # 0 /\ ~HasBlank(vec.vocab[i]))

\* A plausible slip: the list is cut before it is sorted.
KeyWordsCutFirst(model, vec, features) ==
    LET idxs == WordIndices(vec, features)
        all  == [k \in 1..Len(idxs) |-> KeyWordEntry(model, vec, features, idxs[k])]
    IN  SortDesc(SubSeq(all, 1, IF Len(all) < TopK THEN Len(all) ELSE TopK))

\* main.py:163-183
KeyWords(model, vec, features) ==
    LET idxs   == WordIndices(vec, features)
        all    == [k \in 1..Len(idxs) |-> KeyWordEntry(model, vec, features, idxs[k])]
        sorted == SortDesc(all)
    IN  SubSeq(sorted, 1, IF Len(sorted) < TopK THEN Len(sorted) ELSE TopK)

\* main.py:155-194: the record of a text that is not empty after cleaning;
\* ts stands for datetime.now().  inference_time_ms, a measured duration, is
\* left out.
PredictRecord(text, model, vec, ts) ==
    LET cleaned  == clean_text(text)
        features == Transform(vec, cleaned)
        proba    == predict_proba(model, features)
        pred_idx == ArgMax(proba)
    IN  [ text          |-> text,
          cleaned_text  |-> cleaned,
          prediction    |-> LABEL_MAP[pred_idx],
          confidence    |-> Round4(proba[pred_idx]),
          probabilities |-> [l \in {LABEL_MAP[i] : i \in DOMAIN proba} |->
                                Round4(proba[CHOOSE i \in DOMAIN proba : LABEL_MAP[i] = l])],
          timestamp     |-> ts,
          key_words     |-> KeyWords(model, vec, features) ]

\* A plausible slip: the emptiness test compares with None and never fires.
IsBlankNever(cleaned) == FALSE

\* main.py:148  not cleaned.strip()
IsBlank(cleaned) == Strip(cleaned) = <<>>

\* the capacity of the log (main.py:197 has 1000; the model is scaled down)
MaxLog == 3

\* main.py:196
LogAppend(log, rec) == Append(log, rec)

\* A plausible slip: the newest record is dropped instead of the oldest.
LogEvictNewest(log) == IF Len(log) > MaxLog THEN SubSeq(log, 1, Len(log) - 1) ELSE log

\* main.py:197-198
LogEvict(log) == IF Len(log) > MaxLog THEN Tail(log) ELSE log

----------------------------------------------------------------------------
(* The routes, main.py:204-282.                                            *)

\* main.py:218, 226, 242: the guard of the three inference routes
ModelMissing == MODEL = None

\* A plausible slip: the operands are exchanged.
DeltaSwapped(result_a, result_b) ==
    [label \in DOMAIN result_a.probabilities |->
        Round4(10 * (result_b.probabilities[label] - result_a.probabilities[label]))]

\* main.py:248-251
Delta(result_a, result_b) ==
    [label \in DOMAIN result_a.probabilities |->
        Round4(10 * (result_a.probabilities[label] - result_b.probabilities[label]))]

\* main.py:271-272
Distribution(log) ==
    LET labels == [k \in 1..Len(log) |-> log[k].prediction]
    IN  [label \in {labels[k] : k \in 1..Len(labels)} |-> Count(labels, label)]

\* main.py:273, 280
AvgConfidence(log) == RoundDiv(SumSeq([k \in 1..Len(log) |-> log[k].confidence]), Len(log))

\* the number of records /stats lists (main.py:275 has 10; scaled down with MaxLog)
MaxRecent == 2

\* A plausible slip: the recent records are listed oldest first.
RecentOldestFirst(log) ==
    SubSeq(log, IF Len(log) > MaxRecent THEN Len(log) - MaxRecent + 1 ELSE 1, Len(log))

\* main.py:275  PREDICTION_LOG[-10:][::-1]
Recent(log) ==
    LET last == SubSeq(log, IF Len(log) > MaxRecent THEN Len(log) - MaxRecent + 1 ELSE 1, Len(log))
    IN  [k \in 1..Len(last) |-> last[Len(last) + 1 - k]]

\* A plausible slip: handlers declared with def run on a thread pool and can
\* be preempted anywhere.
YieldsAnywhere(pc) == TRUE

\* The handlers are coroutines on one event loop and none of them awaits
\* (main.py:204-282), so a handler that has started runs to its end before
\* another one runs: no position of a handler gives up the loop.
Yields(pc) == FALSE

----------------------------------------------------------------------------
(* The serving process: the lifespan, and request handlers on one event    *)
(* loop.  A request is accepted into a free frame, its handler is run step *)
(* by step, and the finished frame keeps the response until it is sent.    *)

MaxSlots == 2
MaxBatch == 3
MaxWork  == 5

Slots == 1..MaxSlots

TxtNotGood == <<"N","o","t"," ","g","o","o","d","!">>
TxtGood    == <<"g","o","o","d">>
TxtNoise   == <<"!","!","!"," ","#","#","#"," ","@","@","@"," ","h","t","t","p",":","/","/","x",".","c","o">>

Texts == {TxtNotGood, TxtGood, TxtNoise}

Writers == {"predict", "batch", "compare"}
Readers == {"stats", "health"}

\* the requests that pass validation (main.py:76-108; a batch has 1..50
\* texts there, 1..MaxBatch here)
WriterRequests ==
    {[op |-> "predict", texts |-> <<t>>] : t \in Texts}
    \cup {[op |-> "batch", texts |-> ts] : ts \in UNION {[1..n -> Texts] : n \in 1..MaxBatch}}
    \cup {[op |-> "compare", texts |-> <<a, b>>] : a \in Texts, b \in Texts}

ReaderRequests == {[op |-> o, texts |-> <<>>] : o \in Readers}

Cost(req) == IF req.op \in Writers THEN Len(req.texts) ELSE 1

IdleFrame == [pc |-> "idle"]

\* the pure-function specifications have not run
Unset == [done |-> FALSE]

serveVars == <<phase, MODEL, VECTORIZER, PREDICTION_LOG, frames, running, produced, work>>

ServeIdle ==
    /\ phase = "init"
    /\ MODEL = None
    /\ VECTORIZER = None
    /\ PREDICTION_LOG = <<>>
    /\ frames = [s \in Slots |-> IdleFrame]
    /\ running = 0
    /\ produced = <<>>
    /\ work = 0

Init ==
    /\ ServeIdle
    /\ fin = <<>>
    /\ fout = Unset

\* lifespan, main.py:40-44: the model file is missing
StartupNoModel ==
    /\ phase = "init" /\ running = 0
    /\ phase' = "failed"
    /\ UNCHANGED <<MODEL, VECTORIZER, PREDICTION_LOG, frames, running, produced, work, fin, fout>>

\* lifespan, main.py:46-47: the model is loaded and loading the vectorizer raises
StartupNoVectorizer ==
    /\ phase = "init" /\ running = 0
    /\ \E m \in Models : MODEL' = m
    /\ phase' = "failed"
    /\ UNCHANGED <<VECTORIZER, PREDICTION_LOG, frames, running, produced, work, fin, fout>>

\* lifespan, main.py:46-52
Startup ==
    /\ phase = "init" /\ running = 0
    /\ \E m \in Models : MODEL' = m
    /\ VECTORIZER' = TheVectorizer
    /\ phase' = "serving"
    /\ UNCHANGED <<PREDICTION_LOG, frames, running, produced, work, fin, fout>>

\* lifespan, main.py:54-55
Shutdown ==
    /\ phase = "serving" /\ running = 0
    /\ MODEL' = None
    /\ VECTORIZER' = None
    /\ phase' = "stopped"
    /\ UNCHANGED <<PREDICTION_LOG, frames, running, produced, work, fin, fout>>

\* A stats or health request arrives while a handler is running: it waits
\* for the event loop; seen is the length of the log at that moment.
Arrive(s, req) ==
    /\ running # 0
    /\ req.op \in Readers
    /\ frames[s].pc = "idle"
    /\ \A r \in Slots : frames[r].pc # "queued"
    /\ work + Cost(req) <= MaxWork
    /\ work' = work + Cost(req)
    /\ frames' = [frames EXCEPT ![s] = [pc |-> "queued", op |-> req.op, texts |-> req.texts,
                                        seen |-> Len(PREDICTION_LOG)]]
    /\ UNCHANGED <<phase, MODEL, VECTORIZER, PREDICTION_LOG, running, produced, fin, fout>>

\* A validated request reaches its route: the event loop dispatches it (a
\* waiting one first, else a new one into the first free frame) and starts
\* its handler, so no handler is running; a handler that has ended has had
\* its response sent (the send follows the handler's return in the same
\* task step).
Dispatch(s, req) ==
    /\ running = 0
    /\ \A r \in Slots : frames[r].pc # "done"
    /\ \/ /\ frames[s].pc = "queued"
          /\ req = [op |-> frames[s].op, texts |-> frames[s].texts]
          /\ work' = work
       \/ /\ frames[s].pc = "idle"
          /\ \A r \in Slots : frames[r].pc # "queued"
          /\ \A r \in Slots : r < s => frames[r].pc # "idle"
          /\ work + Cost(req) <= MaxWork
          /\ work' = work + Cost(req)

\* The frame of a handler that begins to run: log0 and n0 record the log and
\* the number of appends at that moment, ready0 whether both artifacts were
\* loaded, seen the length of the log when the request arrived.
Started(s, req) ==
    [ op |-> req.op, texts |-> req.texts, log0 |-> PREDICTION_LOG, n0 |-> Len(produced),
      ready0 |-> (MODEL # None /\ VECTORIZER # None),
      seen |-> IF frames[s].pc = "queued" THEN frames[s].seen ELSE Len(PREDICTION_LOG) ]

\* the event loop sends the response
Reply(s) ==
    /\ running = 0
    /\ frames[s].pc = "done"
    /\ frames' = [frames EXCEPT ![s] = IdleFrame]
    /\ UNCHANGED <<phase, MODEL, VECTORIZER, PREDICTION_LOG, running, produced, work, fin, fout>>

\* the event loop lets frame s take a step
MayRun(s) ==
    /\ frames[s].pc \notin {"idle", "done"}
    /\ running \in {0, s}

\* who holds the loop after frame s has moved to f
Holder(s, f) == IF f.pc = "done" \/ Yields(f.pc) THEN 0 ELSE s

\* The frame of a handler that has ended: log1 and n1 record the log and the
\* number of appends at that moment, tried the number of texts it called
\* predict_sentiment on.
Finished(f, status, body, tried, log1, n1) ==
    [ pc |-> "done", op |-> f.op, texts |-> f.texts, status |-> status, body |-> body,
      tried |-> tried, log0 |-> f.log0, n0 |-> f.n0, ready0 |-> f.ready0, seen |-> f.seen,
      log1 |-> log1, n1 |-> n1 ]

\* A plausible slip: the batch results are collected newest first.
WriterBodyReversed(op, results) ==
    IF op = "predict" THEN results[1]
    ELSE IF op = "batch" THEN [results |-> [k \in 1..Len(results) |-> results[Len(results) + 1 - k]]]
    ELSE [result_a |-> results[1], result_b |-> results[2], delta |-> Delta(results[1], results[2])]

\* main.py:233-236, 253-257, 220: the body returned after the last item
WriterBody(op, results) ==
    IF op = "predict" THEN results[1]
    ELSE IF op = "batch" THEN [results |-> results]
    ELSE [result_a |-> results[1], result_b |-> results[2], delta |-> Delta(results[1], results[2])]

\* predict / predict_batch / compare, main.py:216-219, 224-227, 240-243
WriterStart(s, req) ==
    /\ Dispatch(s, req)
    /\ req.op \in Writers
    /\ LET f  == Started(s, req) @@ [pc |-> "infer", i |-> 1, results |-> <<>>]
           f2 == IF ModelMissing
                 THEN Finished(f, 503, "Model not loaded", 0, PREDICTION_LOG, Len(produced))
                 ELSE f
       IN  /\ frames' = [frames EXCEPT ![s] = f2]
           /\ running' = Holder(s, f2)
    /\ UNCHANGED <<phase, MODEL, VECTORIZER, PREDICTION_LOG, produced, fin, fout>>

\* A plausible slip: a failing request takes its records back out of the log.
LogRolledBack(log, log0) == log0

\* main.py:149-152, 230, 246-247: the exception of a failing item leaves
\* predict_sentiment and its caller, neither of which has a handler for it;
\* log is the log at that moment, log0 the log when the request began
LogOnRaise(log, log0) == log

\* predict_sentiment up to the append, main.py:146-196
Infer(s) ==
    /\ MayRun(s)
    /\ frames[s].pc = "infer"
    /\ LET f       == frames[s]
           text    == f.texts[f.i]
           cleaned == clean_text(text)
       IN  IF IsBlank(cleaned)
           THEN LET log == LogOnRaise(PREDICTION_LOG, f.log0)
                    f2  == Finished(f, 400, "Text is empty after preprocessing", f.i,
                                    log, Len(produced))
                IN  /\ PREDICTION_LOG' = log
                    /\ frames' = [frames EXCEPT ![s] = f2]
                    /\ running' = Holder(s, f2)
                    /\ UNCHANGED produced
           ELSE IF VECTORIZER = None \/ MODEL = None
           THEN \* None has no transform / predict_proba: AttributeError
                LET log == LogOnRaise(PREDICTION_LOG, f.log0)
                    f2  == Finished(f, 500, "Internal Server Error", f.i,
                                    log, Len(produced))
                IN  /\ PREDICTION_LOG' = log
                    /\ frames' = [frames EXCEPT ![s] = f2]
                    /\ running' = Holder(s, f2)
                    /\ UNCHANGED produced
           ELSE LET rec == PredictRecord(text, MODEL, VECTORIZER, Len(produced) + 1)
                    f2  == [f EXCEPT !.pc = "evict"] @@ [cur |-> rec]
                IN  /\ PREDICTION_LOG' = LogAppend(PREDICTION_LOG, rec)
                    /\ produced' = Append(produced, rec)
                    /\ frames' = [frames EXCEPT ![s] = f2]
                    /\ running' = Holder(s, f2)
    /\ UNCHANGED <<phase, MODEL, VECTORIZER, work, fin, fout>>

\* predict_sentiment from the capacity check, main.py:197-200, and the
\* caller's next step
Evict(s) ==
    /\ MayRun(s)
    /\ frames[s].pc = "evict"
    /\ LET f       == frames[s]
           log     == LogEvict(PREDICTION_LOG)
           results == Append(f.results, f.cur)
           f2      == IF f.i < Len(f.texts)
                      THEN [pc |-> "infer", op |-> f.op, texts |-> f.texts, i |-> f.i + 1,
                            results |-> results, log0 |-> f.log0, n0 |-> f.n0,
                            ready0 |-> f.ready0, seen |-> f.seen]
                      ELSE Finished(f, 200, WriterBody(f.op, results), f.i, log, Len(produced))
       IN  /\ PREDICTION_LOG' = log
           /\ frames' = [frames EXCEPT ![s] = f2]
           /\ running' = Holder(s, f2)
    /\ UNCHANGED <<phase, MODEL, VECTORIZER, produced, work, fin, fout>>

\* health_check, main.py:205-212
Health(s, req) ==
    /\ Dispatch(s, req)
    /\ req.op = "health"
    /\ LET f  == Started(s, req)
           f2 == Finished(f, 200,
                          [status |-> "healthy", model_loaded |-> MODEL # None,
                           total_predictions |-> Len(PREDICTION_LOG)],
                          0, PREDICTION_LOG, Len(produced))
       IN  /\ frames' = [frames EXCEPT ![s] = f2]
           /\ running' = Holder(s, f2)
    /\ UNCHANGED <<phase, MODEL, VECTORIZER, PREDICTION_LOG, produced, fin, fout>>

\* get_stats, main.py:263-272
StatsStart(s, req) ==
    /\ Dispatch(s, req)
    /\ req.op = "stats"
    /\ LET f  == Started(s, req)
           f2 == IF PREDICTION_LOG = <<>>
                 THEN Finished(f, 200,
                               [total_predictions |-> 0, label_distribution |-> <<>>,
                                avg_confidence |-> 0, recent_predictions |-> <<>>],
                               0, PREDICTION_LOG, Len(produced))
                 ELSE f @@ [pc |-> "avg", distribution |-> Distribution(PREDICTION_LOG)]
       IN  /\ frames' = [frames EXCEPT ![s] = f2]
           /\ running' = Holder(s, f2)
    /\ UNCHANGED <<phase, MODEL, VECTORIZER, PREDICTION_LOG, produced, fin, fout>>

\* get_stats, main.py:273
StatsAvg(s) ==
    /\ MayRun(s)
    /\ frames[s].pc = "avg"
    /\ LET f2 == [frames[s] EXCEPT !.pc = "recent"] @@
                 [avg_conf |-> AvgConfidence(PREDICTION_LOG)]
       IN  /\ frames' = [frames EXCEPT ![s] = f2]
           /\ running' = Holder(s, f2)
    /\ UNCHANGED <<phase, MODEL, VECTORIZER, PREDICTION_LOG, produced, work, fin, fout>>

\* get_stats, main.py:275
StatsRecent(s) ==
    /\ MayRun(s)
    /\ frames[s].pc = "recent"
    /\ LET f2 == [frames[s] EXCEPT !.pc = "total"] @@ [recent |-> Recent(PREDICTION_LOG)]
       IN  /\ frames' = [frames EXCEPT ![s] = f2]
           /\ running' = Holder(s, f2)
    /\ UNCHANGED <<phase, MODEL, VECTORIZER, PREDICTION_LOG, produced, work, fin, fout>>

\* get_stats, main.py:277-282
StatsTotal(s) ==
    /\ MayRun(s)
    /\ frames[s].pc = "total"
    /\ LET f  == frames[s]
           f2 == Finished(f, 200,
                          [total_predictions |-> Len(PREDICTION_LOG),
                           label_distribution |-> f.distribution,
                           avg_confidence |-> f.avg_conf,
                           recent_predictions |-> f.recent],
                          0, PREDICTION_LOG, Len(produced))
       IN  /\ frames' = [frames EXCEPT ![s] = f2]
           /\ running' = Holder(s, f2)
    /\ UNCHANGED <<phase, MODEL, VECTORIZER, PREDICTION_LOG, produced, work, fin, fout>>

Next ==
    \/ StartupNoModel
    \/ StartupNoVectorizer
    \/ Startup
    \/ Shutdown
    \/ \E s \in Slots, req \in ReaderRequests : Arrive(s, req)
    \/ \E s \in Slots : Reply(s)
    \/ \E s \in Slots, req \in WriterRequests : WriterStart(s, req)
    \/ \E s \in Slots : Infer(s)
    \/ \E s \in Slots : Evict(s)
    \/ \E s \in Slots, req \in ReaderRequests : Health(s, req)
    \/ \E s \in Slots, req \in ReaderRequests : StatsStart(s, req)
    \/ \E s \in Slots : StatsAvg(s)
    \/ \E s \in Slots : StatsRecent(s)
    \/ \E s \in Slots : StatsTotal(s)

Spec == Init /\ [][Next]_vars

----------------------------------------------------------------------------
(* Properties of the serving process, checked under Spec.                  *)

Range(seq) == {seq[k] : k \in 1..Len(seq)}

Min(a, b) == IF a < b THEN a ELSE b

LastN(seq, n) == SubSeq(seq, Len(seq) - n + 1, Len(seq))

\* the frames holding the response of a handler of the given routes
DoneFrames(ops) == {s \in Slots : frames[s].pc = "done" /\ frames[s].op \in ops}

\* C1: whenever no inference call stands between its append and its capacity
\* check, the log holds at most MaxLog records and is exactly the last
\* min(n, MaxLog) records produced, in order, n being the number of
\* successful inferences so far.
C1_LogIsMostRecent ==
    (\A s \in Slots : frames[s].pc # "evict") =>
        /\ Len(PREDICTION_LOG) <= MaxLog
        /\ PREDICTION_LOG = LastN(produced, Min(Len(produced), MaxLog))

\* C1 witness: one inference more than the capacity has succeeded; the log is
\* full and the first record is gone.
C1_Witness ==
    /\ running = 0
    /\ Len(produced) = MaxLog + 1
    /\ Len(PREDICTION_LOG) = MaxLog
    /\ produced[1] \notin Range(PREDICTION_LOG)

\* C2: a predict request whose inference call succeeds has appended exactly
\* one record, the one it returns, to the end of the log (which has lost at
\* most its oldest record); one whose text is empty after cleaning
\* fails with status 400 and leaves the log as it was, and nothing else
\* fails with 400.
C2_OneAppendPerSuccess ==
    \A s \in DoneFrames({"predict"}) :
        LET f == frames[s] IN
        /\ f.status = 200 =>
              /\ f.n1 = f.n0 + 1
              /\ produced[f.n1] = f.body
              /\ \E k \in {0, 1} :
                    f.log1 = SubSeq(Append(f.log0, f.body), 1 + k, Len(f.log0) + 1)
              /\ clean_text(f.texts[1]) # <<>>
        /\ f.status = 400 =>
              /\ f.n1 = f.n0
              /\ f.log1 = f.log0
              /\ clean_text(f.texts[1]) = <<>>
        /\ (f.ready0 /\ clean_text(f.texts[1]) = <<>>) => f.status = 400
        /\ f.status # 200 => f.n1 = f.n0 /\ f.log1 = f.log0

\* C2 witness: the noise text was rejected with 400 and a log that already
\* held a record was left as it was.
C2_Witness ==
    \E s \in DoneFrames({"predict"}) :
        /\ frames[s].texts = <<TxtNoise>>
        /\ frames[s].status = 400
        /\ frames[s].log0 # <<>>
        /\ PREDICTION_LOG = frames[s].log0

\* C3 (as stated): a predict, batch or compare request that starts while the
\* artifacts are not both loaded fails with status 503 and leaves the log
\* unchanged.
C3_UnavailableGives503 ==
    \A s \in DoneFrames(Writers) :
        ~frames[s].ready0 => frames[s].status = 503 /\ frames[s].log1 = frames[s].log0

\* C4: a stats or health response never reports more than MaxLog records,
\* also when the request arrived between an append and its capacity check;
\* the log does not change while a stats handler runs, and the count, the
\* distribution, the average and the recent list of its response are those
\* of that one log.
C4_ReadersSeeAtomicLog ==
    /\ \A s \in DoneFrames({"health"}) : frames[s].body.total_predictions <= MaxLog
    /\ \A s \in Slots : frames[s].pc \in {"avg", "recent", "total"} =>
          PREDICTION_LOG = frames[s].log0 /\ Len(PREDICTION_LOG) <= MaxLog
    /\ \A s \in DoneFrames({"stats"}) :
          LET f == frames[s] IN
          /\ f.body.total_predictions <= MaxLog
          /\ f.log1 = f.log0
          /\ f.body.total_predictions = Len(f.log0)
          /\ f.log0 # <<>> =>
                /\ f.body.label_distribution = Distribution(f.log0)
                /\ f.body.avg_confidence = AvgConfidence(f.log0)
                /\ f.body.recent_predictions = Recent(f.log0)

\* C4 witness: a stats request arrived while the log held MaxLog + 1 records
\* (a handler stood between append and capacity check) and reported MaxLog.
C4_Witness ==
    \E s \in DoneFrames({"stats"}) :
        /\ frames[s].seen = MaxLog + 1
        /\ frames[s].body.total_predictions = MaxLog

\* C5: a batch that succeeds returns one record per text, in input order,
\* each the record of one inference run on that text in that order; a batch
\* whose item k fails ends with that item's error and no result list, after
\* items 1..k-1 were inferred in order and none after k.
C5_BatchInOrderFailFast ==
    \A s \in DoneFrames({"batch"}) :
        LET f == frames[s] IN
        /\ f.status = 200 =>
              /\ Len(f.body.results) = Len(f.texts)
              /\ f.n1 = f.n0 + Len(f.texts)
              /\ \A k \in 1..Len(f.texts) :
                    /\ f.body.results[k].text = f.texts[k]
                    /\ f.body.results[k] = produced[f.n0 + k]
        /\ f.status \in {400, 500} =>
              /\ f.tried \in 1..Len(f.texts)
              /\ f.n1 = f.n0 + f.tried - 1
              /\ \A k \in 1..(f.tried - 1) : produced[f.n0 + k].text = f.texts[k]
              /\ f.status = 400 <=> clean_text(f.texts[f.tried]) = <<>>
              /\ \A k \in 1..(f.tried - 1) : clean_text(f.texts[k]) # <<>>
              /\ f.body \in {"Text is empty after preprocessing", "Internal Server Error"}
        /\ f.status \in {200, 400, 500, 503}

\* C5 witness: a batch of three failed at its second item; one record was
\* appended and the third text was never inferred.
C5_Witness ==
    \E s \in DoneFrames({"batch"}) :
        /\ Len(frames[s].texts) = 3
        /\ frames[s].status = 400
        /\ frames[s].tried = 2
        /\ frames[s].n1 = frames[s].n0 + 1
        /\ clean_text(frames[s].texts[3]) # <<>>

\* the number of records of log with the given label
Occurrences(log, label) == Cardinality({k \in 1..Len(log) : log[k].prediction = label})

\* C6: stats always answers (status 200) and leaves the log as it was; on an
\* empty log it reports count 0, an empty distribution, average 0 and no
\* recent records; otherwise the count is the length of the log, the
\* distribution has exactly the labels that occur, each with its number of
\* records, and the recent list is the last min(MaxRecent, length) records,
\* newest first.
C6_StatsContent ==
    \A s \in DoneFrames({"stats"}) :
        LET f   == frames[s]
            log == f.log1
            r   == f.body.recent_predictions
            d   == f.body.label_distribution
        IN
        /\ f.status = 200
        /\ f.log1 = f.log0
        /\ log = <<>> =>
              f.body = [total_predictions |-> 0, label_distribution |-> <<>>,
                        avg_confidence |-> 0, recent_predictions |-> <<>>]
        /\ log # <<>> =>
              /\ f.body.total_predictions = Len(log)
              /\ DOMAIN d = {log[k].prediction : k \in 1..Len(log)}
              /\ \A l \in DOMAIN d : d[l] = Occurrences(log, l) /\ d[l] > 0
              /\ Len(r) = Min(MaxRecent, Len(log))
              /\ \A k \in 1..Len(r) : r[k] = log[Len(log) + 1 - k]

\* C6 witness: stats on a log longer than the recent list, holding two labels.
C6_Witness ==
    \E s \in DoneFrames({"stats"}) :
        /\ Len(frames[s].log0) > MaxRecent
        /\ Cardinality(DOMAIN frames[s].body.label_distribution) = 2
        /\ frames[s].body.recent_predictions[1] # frames[s].body.recent_predictions[2]

\* C7: a compare that succeeds returns a delta with one entry per label of
\* LABEL_MAP, each record A's probability minus record B's; an inference of
\* the same text at any other time produced the same probabilities, so the
\* delta of the texts in the other order is the negation.
C7_DeltaAntisymmetric ==
    \A s \in DoneFrames({"compare"}) :
        frames[s].status = 200 =>
            LET ra == frames[s].body.result_a
                rb == frames[s].body.result_b
                d  == frames[s].body.delta
            IN
            /\ ra.text = frames[s].texts[1] /\ rb.text = frames[s].texts[2]
            /\ DOMAIN d = {LABEL_MAP[i] : i \in DOMAIN LABEL_MAP}
            /\ \A l \in DOMAIN d : d[l] = ra.probabilities[l] - rb.probabilities[l]
            /\ \A k \in 1..Len(produced), j \in 1..Len(produced), l \in DOMAIN d :
                  (produced[k].text = rb.text /\ produced[j].text = ra.text) =>
                      d[l] = -(produced[k].probabilities[l] - produced[j].probabilities[l])

\* C7 witness: two different texts were compared after they had been inferred
\* in the other order, and the delta is not zero.
C7_Witness ==
    \E s \in DoneFrames({"compare"}) :
        /\ frames[s].status = 200
        /\ frames[s].texts = <<TxtGood, TxtNotGood>>
        /\ frames[s].n0 >= 2
        /\ produced[frames[s].n0 - 1].text = TxtNotGood
        /\ produced[frames[s].n0].text = TxtGood
        /\ frames[s].body.delta["positive"] > 0
        /\ frames[s].body.delta["negative"] < 0

\* C9 (as stated): a record produced by a classifier without coef_ has an
\* empty key_words list.
C9_NoCoefNoKeyWords ==
    (MODEL # None /\ ~HasCoef(MODEL)) => \A k \in 1..Len(produced) : produced[k].key_words = <<>>

----------------------------------------------------------------------------
(* Specification of the normalizer alone: every string over Alphabet of    *)
(* length at most MaxLen is fed to clean_text once and twice.              *)

MaxLen == 5

Alphabet == {"w", "a", "!", " ", "W", "@", "1"}

RECURSIVE StringsUpTo(_)
StringsUpTo(n) ==
    IF n = 0 THEN {<<>>}
    ELSE LET S == StringsUpTo(n - 1)
         IN  S \cup {Append(s, c) : s \in {t \in S : Len(t) = n - 1}, c \in Alphabet}

InitClean ==
    /\ ServeIdle
    /\ fin \in StringsUpTo(MaxLen)
    /\ fout = Unset

Normalize ==
    /\ fout = Unset
    /\ fout' = [done |-> TRUE, once |-> clean_text(fin), twice |-> clean_text(clean_text(fin))]
    /\ UNCHANGED <<fin, serveVars>>

NextClean == Normalize

SpecClean == InitClean /\ [][NextClean]_vars

\* http\S+ or www\S+ matches somewhere in s
RECURSIVE HasUrlToken(_)
HasUrlToken(s) ==
    IF s = <<>> THEN FALSE
    ELSE MatchUrl(s) > 0 \/ HasUrlToken(Tail(s))

\* only lowercase ASCII letters, separated by single spaces, no space at the ends
InNormalForm(s) ==
    /\ \A i \in 1..Len(s) : s[i] \in LowerLetters \/ s[i] = " "
    /\ \A i \in 1..Len(s) : s[i] = " " => (i > 1 /\ i < Len(s) /\ s[i + 1] # " ")

\* C8 (as stated): clean_text(clean_text(x)) = clean_text(x) for every x.
C8_Idempotent == fout.done => fout.twice = fout.once

\* C8 (amended): the output is lowercase letters separated by single spaces,
\* and a second application changes nothing unless the stripping steps have
\* formed an http.../www... token in the output.
C8_IdempotentUnlessUrlFormed ==
    fout.done =>
        /\ InNormalForm(fout.once)
        /\ (~HasUrlToken(fout.once) => fout.twice = fout.once)

\* C8 witness: an input that every rewriting step changes, normalized twice.
C8_Witness ==
    /\ fout.done
    /\ fin = <<"W", "!", " ", " ", "a">>
    /\ fout.once = <<"w", " ", "a">>
    /\ fout.twice = fout.once

----------------------------------------------------------------------------
(* Specification of the attribution alone: key words are computed for      *)
(* every set of present terms of a vocabulary with more than TopK words.   *)

MaxTf == 2

\* ten words and one bigram, in get_feature_names_out() order
AttrVectorizer ==
    [ vocab |-> << <<"a","a">>, <<"a","a"," ","b","b">>, <<"b","b">>, <<"c","c">>,
                   <<"d","d">>, <<"e","e">>, <<"f","f">>, <<"g","g">>, <<"h","h">>,
                   <<"i","i">>, <<"j","j">> >>,
      idf   |-> <<5, 5, 5, 5, 5, 5, 5, 5, 5, 5, 5>> ]

AttrModel ==
    [ kind |-> "linear",
      w |-> (0 :> <<3, 3, 3, 3, 3, 3, 3, 3, 3, 3, 3>>) @@
            (1 :> <<6164, 9003, -6156, 4, 3, 2403, -2397, 10003, 1, 6164, 23>>) @@
            (2 :> <<0, 0, 0, 0, 0, 0, 0, 0, 0, 0, 0>>),
      b |-> (0 :> 0) @@ (1 :> 0) @@ (2 :> 0) ]

AttrModels == {AttrModel, [AttrModel EXCEPT !.kind = "nonlinear"]}

InitAttr ==
    /\ ServeIdle
    /\ fin \in [model : AttrModels, present : SUBSET (1..Len(AttrVectorizer.vocab)), tf : 1..MaxTf]
    /\ fout = Unset

\* the term vector of a text holding the present terms tf times each
AttrFeatures(in) ==
    [i \in 1..Len(AttrVectorizer.vocab) |->
        IF i \in in.present THEN AttrVectorizer.idf[i] * in.tf ELSE 0]

Attribute ==
    /\ fout = Unset
    /\ fout' = [done |-> TRUE,
                key_words |-> KeyWords(fin.model, AttrVectorizer, AttrFeatures(fin))]
    /\ UNCHANGED <<fin, serveVars>>

NextAttr == Attribute

SpecAttr == InitAttr /\ [][NextAttr]_vars

\* the vocabulary index of a word
IndexOf(vec, word) == CHOOSE i \in 1..Len(vec.vocab) : vec.vocab[i] = word

\* the unrounded net contribution of term idx
Net(model, features, idx) == (model.w[1][idx] - model.w[0][idx]) * features[idx]

\* C10: the key words are at most TopK, each a single-word vocabulary term of
\* non-zero weight, with a non-negative score, sorted by score descending and
\* among equal scores by vocabulary index ascending; with coef_ present the
\* score is |(positive coefficient - negative coefficient) * weight| rounded
\* to 4 decimals, the type is "positive" exactly when the unrounded net is
\* positive, and every term left out ranks after the TopK listed.
C10_TopKeyWords ==
    fout.done =>
        LET kw       == fout.key_words
            vec      == AttrVectorizer
            features == AttrFeatures(fin)
            idx(k)   == IndexOf(vec, kw[k].word)
            listed   == {idx(k) : k \in 1..Len(kw)}
            cands    == {i \in 1..Len(features) : features[i] # 0 /\ ~HasBlank(vec.vocab[i])}
        IN
        /\ Len(kw) <= TopK
        /\ listed \subseteq cands
        /\ Cardinality(listed) = Len(kw)
        /\ Len(kw) = Min(TopK, Cardinality(cands))
        /\ \A k \in 1..Len(kw) : kw[k].score >= 0 /\ kw[k].type \in {"positive", "negative"}
        /\ \A k \in 1..(Len(kw) - 1) :
              \/ kw[k].score > kw[k + 1].score
              \/ kw[k].score = kw[k + 1].score /\ idx(k) < idx(k + 1)
        /\ HasCoef(fin.model) =>
              /\ \A k \in 1..Len(kw) :
                    /\ kw[k].score = Round4(Abs(Net(fin.model, features, idx(k))))
                    /\ kw[k].type = "positive" <=> Net(fin.model, features, idx(k)) > 0
              /\ \A i \in cands \ listed :
                    LET sc   == Round4(Abs(Net(fin.model, features, i)))
                        last == kw[Len(kw)]
                    IN  sc < last.score \/ (sc = last.score /\ i > idx(Len(kw)))

\* C10 witness: more than TopK words are present, the list is full, two listed
\* words tie after rounding with different unrounded nets, and both types
\* occur.
C10_Witness ==
    /\ fout.done
    /\ HasCoef(fin.model)
    /\ Cardinality(fin.present) = Len(AttrVectorizer.vocab)
    /\ Len(fout.key_words) = TopK
    /\ \E k \in 1..(TopK - 1) :
          /\ fout.key_words[k].score = fout.key_words[k + 1].score
          /\ fout.key_words[k].type # fout.key_words[k + 1].type
          /\ Abs(Net(fin.model, AttrFeatures(fin), IndexOf(AttrVectorizer, fout.key_words[k].word)))
                # Abs(Net(fin.model, AttrFeatures(fin), IndexOf(AttrVectorizer, fout.key_words[k + 1].word)))

----------------------------------------------------------------------------
(* The prediction on its own: predict_sentiment applied once to a text,    *)
(* for classifiers whose intercepts make class probabilities tie, differ   *)
(* by less than the rounding step, or differ clearly.                      *)

\* the intercepts tried for each class, in the units of Score
Intercepts == {0, 1300000, 1300100}

\* the classifiers of Models with every choice of intercepts
PredModels ==
    {[m EXCEPT !.b = b] : m \in Models, b \in [DOMAIN LABEL_MAP -> Intercepts]}

\* a text none of whose words is in the vocabulary: the intercepts decide
TxtOk == <<"O","k",".">>

PredTexts == Texts \cup {TxtOk}

InitPred ==
    /\ ServeIdle
    /\ fin \in [model : PredModels, text : PredTexts]
    /\ fout = Unset

\* predict_sentiment(text), main.py:144-200, on the artifacts of fin, leaving
\* the log aside; proba is kept beside the record as MODEL returned it
Predict ==
    /\ fout = Unset
    /\ fout' = IF IsBlank(clean_text(fin.text))
               THEN [done |-> TRUE, status |-> 400]
               ELSE [done |-> TRUE, status |-> 200,
                     rec  |-> PredictRecord(fin.text, fin.model, TheVectorizer, 1)]
    /\ UNCHANGED <<fin, serveVars>>

NextPred == Predict

SpecPred == InitPred /\ [][NextPred]_vars

\* what MODEL.predict_proba returned for the input of fin
ProbaOf(in) == predict_proba(in.model, Transform(TheVectorizer, clean_text(in.text)))

\* C11: for every successful inference the prediction is the label-map name
\* of the lowest index among the classes of highest probability, the
\* confidence is that class's probability rounded to 4 decimals and is the
\* value stored for the predicted label, and it is greater than or equal to
\* every probability stored in the record.
C11_ArgmaxAndConfidence ==
    (fout.done /\ fout.status = 200) =>
        LET proba == ProbaOf(fin)
            rec   == fout.rec
            best  == {i \in DOMAIN proba : \A j \in DOMAIN proba : proba[j] <= proba[i]}
            first == CHOOSE i \in best : \A j \in best : i <= j
        IN  /\ rec.prediction = LABEL_MAP[first]
            /\ rec.confidence = Round4(proba[first])
            /\ DOMAIN rec.probabilities = {LABEL_MAP[i] : i \in DOMAIN proba}
            /\ \A i \in DOMAIN proba : rec.probabilities[LABEL_MAP[i]] = Round4(proba[i])
            /\ rec.confidence = rec.probabilities[rec.prediction]
            /\ \A l \in DOMAIN rec.probabilities : rec.confidence >= rec.probabilities[l]

\* C11 witness: a successful inference where two classes share the highest
\* probability exactly, the higher of them is not the last class, and the
\* lower-indexed one is predicted.
C11_Witness ==
    /\ fout.done
    /\ fout.status = 200
    /\ \E i, j \in DOMAIN LABEL_MAP :
          /\ i < j
          /\ ProbaOf(fin)[i] = ProbaOf(fin)[j]
          /\ \A k \in DOMAIN LABEL_MAP : ProbaOf(fin)[k] <= ProbaOf(fin)[i]
          /\ \E k \in DOMAIN LABEL_MAP : ProbaOf(fin)[k] < ProbaOf(fin)[i]
          /\ fout.rec.prediction = LABEL_MAP[i]
          /\ fout.rec.confidence = Round4(ProbaOf(fin)[i])

----------------------------------------------------------------------------
(* Failing batch and compare requests, under Spec.                         *)

\* the records appended by the handler of frame f, in order
AppendedBy(f) == SubSeq(produced, f.n0 + 1, f.n1)

\* C12: a batch or compare request that fails at item k returns an error and
\* no results, yet the records of its items 1..k-1 were appended and are in
\* the log when it ends: the log is then the log the request found followed
\* by those k-1 records, cut from the front to MaxLog.
C12_FailedRequestKeepsRecords ==
    \A s \in DoneFrames({"batch", "compare"}) :
        LET f   == frames[s]
            all == f.log0 \o AppendedBy(f)
        IN  f.status \in {400, 500} =>
              /\ f.body \in {"Text is empty after preprocessing", "Internal Server Error"}
              /\ f.tried \in 1..Len(f.texts)
              /\ Len(AppendedBy(f)) = f.tried - 1
              /\ \A k \in 1..(f.tried - 1) : AppendedBy(f)[k].text = f.texts[k]
              /\ f.log1 = LastN(all, Min(Len(all), MaxLog))
              /\ running = 0 => PREDICTION_LOG = f.log1

\* C12 witness: a batch failed at its second item with the log full before
\* it; the first item's record is the newest of the log and the oldest
\* record the request found is gone.
C12_Witness ==
    \E s \in DoneFrames({"batch"}) :
        LET f == frames[s] IN
        /\ f.status = 400
        /\ f.tried = 2
        /\ Len(f.log0) = MaxLog
        /\ f.log1 = Tail(f.log0) \o AppendedBy(f)
        /\ f.log1 # f.log0
        /\ PREDICTION_LOG = f.log1

====
